---------------------------- MODULE Spec2Model ----------------------------
(***************************************************************************)
(* A model of the JSON front end of flakelolz/json-parser:                 *)
(*   reader.rs  JsonReader   bytes -> code points (4-byte chunks, rewind)  *)
(*   token.rs   JsonTokenizer code points -> tokens                        *)
(*   parser.rs  JsonParser   tokens -> Value (recursive builders)          *)
(*                                                                         *)
(* Code points and bytes are integers.  A text (Rust String) is a sequence *)
(* of code points.  Option<T> is a sequence of length 0 (None) or 1        *)
(* (Some).  The recursion of process_object / process_array is the         *)
(* sequence `stack` of call frames.                                        *)
(***************************************************************************)
EXTENDS Integers, Sequences, FiniteSets, TLC

VARIABLES
    input,                  \* the scenario: what the byte source was made from
    src,                    \* reader.rs: the bytes of the source
    reader,                 \* reader.rs: JsonReader.reader, the BufReader
    character_buffer,       \* reader.rs: JsonReader.character_buffer
    calls,                  \* JsonReader::next calls made (reader runs)
    yielded,                \* what the last of them returned (reader runs)
    peeked,                 \* token.rs: Peekable's one-item lookahead slot
    tokens,                 \* token.rs: JsonTokenizer.tokens
    pc,                     \* where the parse call is
    string_characters,      \* token.rs: parse_string local
    number_characters,      \* token.rs: parse_number local
    is_decimal,             \* token.rs: parse_number local
    epsilon_characters,     \* token.rs: parse_number local
    is_epsilon_characters,  \* token.rs: parse_number local
    cursor,                 \* parser.rs: tokens consumed by the shared iterator
    value,                  \* parser.rs: tokens_to_value's candidate
    stack,                  \* parser.rs: frames of process_object/process_array
    result                  \* what parse_from_bytes returned (when pc = "done")

vars == <<input, src, reader, character_buffer, calls, yielded, peeked,
          tokens,
          pc, string_characters, number_characters, is_decimal,
          epsilon_characters, is_epsilon_characters, cursor, value, stack,
          result>>

readerVars == <<src, reader, character_buffer>>
historyVars == <<calls, yielded>>
lexVars == <<string_characters, number_characters, is_decimal,
             epsilon_characters, is_epsilon_characters>>
buildVars == <<cursor, value, stack, result>>

(***************************************************************************)
(* Bounds of the model.                                                    *)
(***************************************************************************)
\* code points per source in the reader runs, characters per number text
MaxChars == 4
\* NULs followed past the end of a source (reader runs, unterminated strings)
MaxNulRun == 3
\* nodes (literals, arrays, objects) per generated JSON document
MaxNodes == 4
\* tokens per sequence in the builder runs
MaxTokens == 4

(***************************************************************************)
(* Characters the code names.                                              *)
(***************************************************************************)
NUL == 0
Quote == 34
Plus == 43
Comma == 44
Minus == 45
Dot == 46
Digit0 == 48
Digit9 == 57
Colon == 58
UpperE == 69
LBracket == 91
RBracket == 93
LowerA == 97
LowerE == 101
LowerF == 102
LowerL == 108
LowerN == 110
LowerR == 114
LowerS == 115
LowerT == 116
LowerU == 117
LBrace == 123
RBrace == 125

\* char::is_ascii_whitespace: U+0020, U+0009, U+000A, U+000C, U+000D
IsAsciiWhitespace(c) == c \in {32, 9, 10, 12, 13}

IsDigit(c) == Digit0 <= c /\ c <= Digit9

(***************************************************************************)
(* Generic helpers.                                                        *)
(***************************************************************************)
Min(a, b) == IF a <= b THEN a ELSE b

RECURSIVE Flatten(_)
Flatten(ss) == IF ss = <<>> THEN <<>> ELSE Head(ss) \o Flatten(Tail(ss))

\* Option<T>
None == <<>>
Some(x) == <<x>>

(***************************************************************************)
(* std::str::from_utf8, as the reader uses it (reader.rs:91, 101-102).     *)
(***************************************************************************)
IsCont(b) == 128 <= b /\ b <= 191

\* Length of the UTF-8 sequence starting at buf[i] when it is complete and
\* well formed inside buf, 0 otherwise (invalid byte or truncated sequence).
Utf8SeqLen(buf, i) ==
    LET b == buf[i]
        n == Len(buf)
        c(k) == i + k <= n /\ IsCont(buf[i + k])
    IN  IF b < 128 THEN 1
        ELSE IF 194 <= b /\ b <= 223 THEN (IF c(1) THEN 2 ELSE 0)
        ELSE IF b = 224
             THEN (IF i + 2 <= n /\ 160 <= buf[i+1] /\ buf[i+1] <= 191 /\ c(2)
                   THEN 3 ELSE 0)
        ELSE IF b = 237
             THEN (IF i + 2 <= n /\ 128 <= buf[i+1] /\ buf[i+1] <= 159 /\ c(2)
                   THEN 3 ELSE 0)
        ELSE IF 225 <= b /\ b <= 239 THEN (IF c(1) /\ c(2) THEN 3 ELSE 0)
        ELSE IF b = 240
             THEN (IF i + 3 <= n /\ 144 <= buf[i+1] /\ buf[i+1] <= 191
                      /\ c(2) /\ c(3)
                   THEN 4 ELSE 0)
        ELSE IF b = 244
             THEN (IF i + 3 <= n /\ 128 <= buf[i+1] /\ buf[i+1] <= 143
                      /\ c(2) /\ c(3)
                   THEN 4 ELSE 0)
        ELSE IF 241 <= b /\ b <= 243
             THEN (IF c(1) /\ c(2) /\ c(3) THEN 4 ELSE 0)
        ELSE 0

\* Utf8Error::valid_up_to: the length of the longest valid prefix of buf
\* (Len(buf) when the whole buffer is valid, i.e. from_utf8 returned Ok).
RECURSIVE ValidFrom(_, _)
ValidFrom(buf, i) ==
    IF i > Len(buf) THEN Len(buf)
    ELSE LET w == Utf8SeqLen(buf, i)
         IN  IF w = 0 THEN i - 1 ELSE ValidFrom(buf, i + w)

ValidUpTo(buf) == ValidFrom(buf, 1)

\* The scalar value of the w-byte sequence at buf[i].
DecodeAt(buf, i, w) ==
    IF w = 1 THEN buf[i]
    ELSE IF w = 2 THEN (buf[i] % 32) * 64 + (buf[i+1] % 64)
    ELSE IF w = 3
         THEN (buf[i] % 16) * 4096 + (buf[i+1] % 64) * 64 + (buf[i+2] % 64)
    ELSE (buf[i] % 8) * 262144 + (buf[i+1] % 64) * 4096
             + (buf[i+2] % 64) * 64 + (buf[i+3] % 64)

\* str::chars of a valid buffer
RECURSIVE CharsFrom(_, _)
CharsFrom(buf, i) ==
    IF i > Len(buf) THEN <<>>
    ELSE LET w == Utf8SeqLen(buf, i)
         IN  <<DecodeAt(buf, i, w)>> \o CharsFrom(buf, i + w)

StrChars(buf) == CharsFrom(buf, 1)

\* char::encode_utf8 (how a text becomes the bytes of a source)
EncodeUtf8(c) ==
    IF c < 128 THEN <<c>>
    ELSE IF c < 2048 THEN <<192 + (c \div 64), 128 + (c % 64)>>
    ELSE IF c < 65536
         THEN <<224 + (c \div 4096), 128 + ((c \div 64) % 64), 128 + (c % 64)>>
    ELSE <<240 + (c \div 262144), 128 + ((c \div 4096) % 64),
           128 + ((c \div 64) % 64), 128 + (c % 64)>>

AsBytes(text) == Flatten([i \in 1..Len(text) |-> EncodeUtf8(text[i])])

(***************************************************************************)
(* The byte source: the bytes `head`, then `pad` bytes `fill`, then the    *)
(* bytes `tail`.                                                           *)
(***************************************************************************)
Source(bytes) == [head |-> bytes, fill |-> 0, pad |-> 0, tail |-> <<>>]
SrcLen(s) == Len(s.head) + s.pad + Len(s.tail)
ByteAt(s, i) ==
    IF i <= Len(s.head) THEN s.head[i]
    ELSE IF i <= Len(s.head) + s.pad THEN s.fill
    ELSE s.tail[i - Len(s.head) - s.pad]

(***************************************************************************)
(* std::io::BufReader over the source (reader.rs:15, 48-52, 68-72).  Its   *)
(* state is [pos, lo, hi]: the position in the source of the next byte it  *)
(* hands out, and the part lo..hi of the source its internal buffer holds. *)
(***************************************************************************)
\* BufReader::new: the capacity of the internal buffer (DEFAULT_BUF_SIZE)
BufCapacity == 8192

NewBufReader == [pos |-> 0, lo |-> 0, hi |-> 0]

\* fill_buf: an exhausted buffer is refilled from the source
Filled(s, br) ==
    IF br.pos = br.hi
    THEN [pos |-> br.pos, lo |-> br.pos,
          hi |-> Min(br.pos + BufCapacity, SrcLen(s))]
    ELSE br

\* BufReader::read into a 4-byte buffer: what the internal buffer still
\* holds, at most 4 bytes.  `at` is where the bytes read start, n their
\* number and br the BufReader afterwards.
Taken(br) ==
    [at |-> br.pos, n |-> Min(4, br.hi - br.pos),
     br |-> [br EXCEPT !.pos = @ + Min(4, br.hi - br.pos)]]

BufRead(s, br) == Taken(Filled(s, br))

\* BufReader::seek_relative(-k), its result ignored (reader.rs:106): inside
\* the internal buffer the position moves back; otherwise the source is
\* sought and the buffer discarded, and a seek before the start of the
\* source fails and changes nothing.
SeekRelativeBack(br, k) ==
    IF k <= br.pos - br.lo THEN [br EXCEPT !.pos = @ - k]
    ELSE IF br.pos - k < 0 THEN br
    ELSE [pos |-> br.pos - k, lo |-> br.pos - k, hi |-> br.pos - k]

(***************************************************************************)
(* reader.rs: JsonReader::next                                             *)
(***************************************************************************)
\* reader.rs:88-89: utf8_buffer after the read, the bytes not read left 0
Utf8Buffer(s, at, n) == [i \in 1..4 |-> IF i <= n THEN ByteAt(s, at + i) ELSE 0]

\* reader.rs:93-94, 109-112: the queue takes the characters and its front
\* is popped
Collected(br, chars) ==
    [reader |-> br,
     character_buffer |-> IF chars = <<>> THEN <<>> ELSE Tail(chars),
     item |-> IF chars = <<>> THEN None ELSE Some(Head(chars))]

\* reader.rs:91-106: valid_bytes is 4 when from_utf8 returned Ok; otherwise
\* the reader is rewound by remaining_bytes = 4 - valid_bytes
Decoded(br, utf8_buffer, valid_bytes) ==
    Collected(IF valid_bytes = 4 THEN br
              ELSE SeekRelativeBack(br, 4 - valid_bytes),
              StrChars(SubSeq(utf8_buffer, 1, valid_bytes)))

FromUtf8(br, utf8_buffer) == Decoded(br, utf8_buffer, ValidUpTo(utf8_buffer))

Chunk(s, read) == FromUtf8(read.br, Utf8Buffer(s, read.at, read.n))

\* JsonReader::next on the reader state rd = [reader, character_buffer]:
\* the new state and the Option<char> returned (reader.rs:83-115).
ReaderNext(s, rd) ==
    IF rd.character_buffer # <<>>
    THEN [reader |-> rd.reader,
          character_buffer |-> Tail(rd.character_buffer),
          item |-> Some(Head(rd.character_buffer))]
    ELSE Chunk(s, BufRead(s, rd.reader))

(***************************************************************************)
(* std::iter::Peekable over the reader (token.rs:27).  `peeked` is         *)
(* Option<Option<char>>.  An iterator state is [reader, character_buffer,  *)
(* peeked]; both operations return it with the item they yield.            *)
(***************************************************************************)
\* the iterator after the reader result r was taken (keep = FALSE) or
\* stored in the lookahead slot (keep = TRUE)
Pulled(r, keep) ==
    [reader |-> r.reader, character_buffer |-> r.character_buffer,
     peeked |-> IF keep THEN Some(r.item) ELSE None, item |-> r.item]

PeekableNext(s, it) ==
    IF it.peeked # None
    THEN [reader |-> it.reader, character_buffer |-> it.character_buffer,
          peeked |-> None, item |-> it.peeked[1]]
    ELSE Pulled(ReaderNext(s, it), FALSE)

PeekablePeek(s, it) ==
    IF it.peeked # None
    THEN [reader |-> it.reader, character_buffer |-> it.character_buffer,
          peeked |-> it.peeked, item |-> it.peeked[1]]
    ELSE Pulled(ReaderNext(s, it), TRUE)

Iter ==
    [reader |-> reader, character_buffer |-> character_buffer,
     peeked |-> peeked]

(***************************************************************************)
(* token.rs: Token, value.rs: Number                                       *)
(***************************************************************************)
\* Number::I64(v); Number::F64 holding the decimal value m * 10^e, with m
\* not a multiple of 10 (the value the text denotes, before f64 rounding;
\* the sign of a zero is not kept).
I64(v) == [tag |-> "I64", m |-> v, e |-> 0]

\* A Token is a record of its variant k and the payloads b (Boolean),
\* n (Number) and s (String); a variant leaves the payloads it does not
\* carry at their defaults.
Tok(kind) == [k |-> kind, b |-> FALSE, n |-> I64(0), s |-> <<>>]
TString(text) == [Tok("String") EXCEPT !.s = text]
TNumber(number) == [Tok("Number") EXCEPT !.n = number]
TBoolean(b) == [Tok("Boolean") EXCEPT !.b = b]

RECURSIVE Normalise(_, _)
Normalise(m, e) ==
    IF m = 0 THEN [tag |-> "F64", m |-> 0, e |-> 0]
    ELSE IF m % 10 = 0 THEN Normalise(m \div 10, e + 1)
    ELSE [tag |-> "F64", m |-> m, e |-> e]

F64(m, e) == Normalise(m, e)

(***************************************************************************)
(* str::parse::<i64> and str::parse::<f64> on the texts parse_number can   *)
(* build: number_characters holds only '-', '.', digits; epsilon_characters*)
(* only '-' and digits.  Digit runs in the model stay far below 2^63.      *)
(***************************************************************************)
Unsigned(cs) == IF cs # <<>> /\ cs[1] = Minus THEN Tail(cs) ELSE cs

Sign(cs) == IF cs # <<>> /\ cs[1] = Minus THEN -1 ELSE 1

RECURSIVE DigitsValue(_)
DigitsValue(ds) ==
    IF ds = <<>> THEN 0
    ELSE DigitsValue(SubSeq(ds, 1, Len(ds) - 1)) * 10 + (ds[Len(ds)] - Digit0)

\* Ok(_) of parse::<i64>: an optional '-', then one or more digits
ParsesAsI64(cs) ==
    /\ Unsigned(cs) # <<>>
    /\ \A i \in 1..Len(Unsigned(cs)) : IsDigit(Unsigned(cs)[i])

ParseI64(cs) == Sign(cs) * DigitsValue(Unsigned(cs))

DotCount(cs) == Cardinality({i \in 1..Len(cs) : cs[i] = Dot})

OnlyDigits(cs) == SelectSeq(cs, IsDigit)

\* Ok(_) of parse::<f64>: an optional '-', then digits with at most one '.'
\* and at least one digit
ParsesAsF64(cs) ==
    /\ \A i \in 1..Len(Unsigned(cs)) :
            IsDigit(Unsigned(cs)[i]) \/ Unsigned(cs)[i] = Dot
    /\ DotCount(cs) <= 1
    /\ OnlyDigits(cs) # <<>>

\* the digits after the '.', if any
FractionDigits(cs) ==
    IF DotCount(cs) = 0 THEN 0
    ELSE Len(cs) - (CHOOSE i \in 1..Len(cs) : cs[i] = Dot)

\* a final part that would hand back the failure indicator where the code
\* unwraps
FinishNumberReturnsErr(mantissa, decimal, exponent, epsilon) ==
    IF (epsilon /\ ParsesAsF64(mantissa) /\ ParsesAsF64(exponent))
        \/ (~epsilon /\ decimal /\ ParsesAsF64(mantissa))
        \/ (~epsilon /\ ~decimal /\ ParsesAsI64(mantissa))
    THEN [kind |-> "Ok", number |-> I64(0)]
    ELSE [kind |-> "Err", number |-> I64(0)]

\* a final part that would tag a number with a decimal point as an integer
FinishNumberDecimalAsInteger(mantissa, decimal, exponent, epsilon) ==
    IF epsilon
    THEN IF ParsesAsF64(mantissa) /\ ParsesAsF64(exponent)
         THEN [kind |-> "Ok",
               number |-> F64(Sign(mantissa) * DigitsValue(OnlyDigits(mantissa)),
                              ParseI64(exponent) - FractionDigits(mantissa))]
         ELSE [kind |-> "Panic", number |-> I64(0)]
    ELSE IF decimal \/ ParsesAsI64(mantissa)
         THEN [kind |-> "Ok",
               number |-> I64(Sign(mantissa) * DigitsValue(OnlyDigits(mantissa)))]
         ELSE [kind |-> "Panic", number |-> I64(0)]

\* the final part of parse_number (token.rs:271-293): "Ok" with the Number,
\* or "Panic" when an unwrap fails.  (The exponent text holds no '.', so
\* its f64 value is the integer ParseI64 gives.)
FinishNumber(mantissa, decimal, exponent, epsilon) ==
    IF epsilon
    THEN IF ParsesAsF64(mantissa) /\ ParsesAsF64(exponent)
         THEN [kind |-> "Ok",
               number |-> F64(Sign(mantissa) * DigitsValue(OnlyDigits(mantissa)),
                              ParseI64(exponent) - FractionDigits(mantissa))]
         ELSE [kind |-> "Panic", number |-> I64(0)]
    ELSE IF decimal
    THEN IF ParsesAsF64(mantissa)
         THEN [kind |-> "Ok",
               number |-> F64(Sign(mantissa) * DigitsValue(OnlyDigits(mantissa)),
                              0 - FractionDigits(mantissa))]
         ELSE [kind |-> "Panic", number |-> I64(0)]
    ELSE IF ParsesAsI64(mantissa)
         THEN [kind |-> "Ok", number |-> I64(ParseI64(mantissa))]
         ELSE [kind |-> "Panic", number |-> I64(0)]

(***************************************************************************)
(* value.rs: Value                                                         *)
(***************************************************************************)
\* HashMap::new: the mapping with no key
EmptyMap == <<>>

\* A Value is a record of its variant t and the payloads b (Boolean),
\* n (Number), s (String), a (Array: a sequence of Values) and o (Object:
\* a function from keys to Values); a variant leaves the payloads it does
\* not carry at their defaults.
VNull ==
    [t |-> "Null", b |-> FALSE, n |-> I64(0), s |-> <<>>, a |-> <<>>,
     o |-> EmptyMap]
VBoolean(b) == [VNull EXCEPT !.t = "Boolean", !.b = b]
VNumber(n) == [VNull EXCEPT !.t = "Number", !.n = n]
VString(s) == [VNull EXCEPT !.t = "String", !.s = s]
VArray(elems) == [VNull EXCEPT !.t = "Array", !.a = elems]
VObject(map) == [VNull EXCEPT !.t = "Object", !.o = map]

\* an insert that would keep the value an existing key already has
InsertKeepsFirst(map, key, val) ==
    [k \in DOMAIN map \cup {key} |-> IF k \in DOMAIN map THEN map[k] ELSE val]

\* HashMap::insert (an existing key is overwritten)
Insert(map, key, val) ==
    [k \in DOMAIN map \cup {key} |-> IF k = key THEN val ELSE map[k]]


(***************************************************************************)
(* token.rs: JsonTokenizer::tokenize_json, one action per match arm of the *)
(* main loop (pc = "dispatch").  A panic ends the call: pc = "abort".      *)
(* Err(()) returned through `?` would end it with pc = "err".              *)
(***************************************************************************)
SetIter(it) ==
    /\ reader' = it.reader
    /\ character_buffer' = it.character_buffer
    /\ peeked' = it.peeked

Peek == PeekablePeek(src, Iter)

\* Ok(&self.tokens) reaches parse_from_bytes, which calls tokens_to_value
\* (parser.rs:16-18, 31-34)
StartBuilder ==
    /\ pc' = "build"
    /\ cursor' = 0
    /\ value' = VNull
    /\ stack' = <<>>
    /\ UNCHANGED result

\* a chain that would not compare the last character of the keyword
RECURSIVE ExpectAllButLast(_, _, _)
ExpectAllButLast(s, it, expected) ==
    IF expected = <<>> THEN [ok |-> TRUE, it |-> it]
    ELSE LET n == PeekableNext(s, it)
         IN  IF Len(expected) = 1 \/ n.item = Some(Head(expected))
             THEN ExpectAllButLast(s, n, Tail(expected))
             ELSE [ok |-> FALSE, it |-> n]

\* the assert_eq!(Some(c), self.iterator.next()) chain of a keyword arm:
\* whether every assertion passed, and the iterator afterwards
RECURSIVE ExpectChars(_, _, _)
ExpectChars(s, it, expected) ==
    IF expected = <<>> THEN [ok |-> TRUE, it |-> it]
    ELSE LET n == PeekableNext(s, it)
         IN  IF n.item = Some(Head(expected))
             THEN ExpectChars(s, n, Tail(expected))
             ELSE [ok |-> FALSE, it |-> n]

\* token.rs:77-122: the arms for 't', 'f' and 'n'
KeywordArm(first, rest, token) ==
    /\ pc = "dispatch"
    /\ \E pk \in {Peek} :
        /\ pk.item = Some(first)
        /\ LET r == ExpectChars(src, PeekableNext(src, pk), rest)
           IN  /\ SetIter(r.it)
               /\ IF r.ok
                  THEN tokens' = Append(tokens, token) /\ pc' = "dispatch"
                  ELSE tokens' = tokens /\ pc' = "abort"
        /\ UNCHANGED <<input, src, historyVars, lexVars, buildVars>>

TokTrue == KeywordArm(LowerT, <<LowerR, LowerU, LowerE>>, TBoolean(TRUE))

TokFalse ==
    KeywordArm(LowerF, <<LowerA, LowerL, LowerS, LowerE>>, TBoolean(FALSE))

TokNull == KeywordArm(LowerN, <<LowerU, LowerL, LowerL>>, Tok("Null"))

\* token.rs:55-71, up to the call of parse_string
TokQuote ==
    /\ pc = "dispatch"
    /\ \E pk \in {Peek} :
        /\ pk.item = Some(Quote)
        /\ tokens' = Append(tokens, Tok("Quotes"))
        /\ SetIter(PeekableNext(src, pk))
        /\ string_characters' = <<>>
        /\ pc' = "string"
        /\ UNCHANGED <<input, src, historyVars, number_characters, is_decimal,
                       epsilon_characters, is_epsilon_characters, buildVars>>

\* token.rs:72-75, up to the call of parse_number (token.rs:181-193)
TokNumber ==
    /\ pc = "dispatch"
    /\ \E pk \in {Peek} :
        /\ pk.item # None
        /\ pk.item[1] = Minus \/ IsDigit(pk.item[1])
        /\ SetIter(pk)
        /\ number_characters' = <<>>
        /\ is_decimal' = FALSE
        /\ epsilon_characters' = <<>>
        /\ is_epsilon_characters' = FALSE
        /\ pc' = "number"
        /\ UNCHANGED <<input, src, historyVars, tokens, string_characters,
                       buildVars>>

\* token.rs:124-147
DelimiterToken(c) ==
    CASE c = LBrace -> Tok("CurlyOpen")
      [] c = RBrace -> Tok("CurlyClose")
      [] c = LBracket -> Tok("ArrayOpen")
      [] c = RBracket -> Tok("ArrayClose")
      [] c = Comma -> Tok("Comma")
      [] c = Colon -> Tok("Colon")

TokDelimiter ==
    /\ pc = "dispatch"
    /\ \E pk \in {Peek} :
        /\ pk.item # None
        /\ pk.item[1] \in {LBrace, RBrace, LBracket, RBracket, Comma, Colon}
        /\ tokens' = Append(tokens, DelimiterToken(pk.item[1]))
        /\ SetIter(PeekableNext(src, pk))
        /\ pc' = "dispatch"
        /\ UNCHANGED <<input, src, historyVars, lexVars, buildVars>>

\* an arm that would step over the NUL and go on
TokNulSkipped ==
    /\ pc = "dispatch"
    /\ \E pk \in {Peek} :
        /\ pk.item = Some(NUL)
        /\ SetIter(PeekableNext(src, pk))
        /\ pc' = "dispatch"
        /\ UNCHANGED <<input, src, historyVars, tokens, lexVars, buildVars>>

\* token.rs:148: '\0' => break, then Ok(&self.tokens)
TokNul ==
    /\ pc = "dispatch"
    /\ \E pk \in {Peek} :
        /\ pk.item = Some(NUL)
        /\ SetIter(pk)
        /\ StartBuilder
        /\ UNCHANGED <<input, src, historyVars, tokens, lexVars>>

\* token.rs:53: peek() gave None, the loop ends, then Ok(&self.tokens)
TokIteratorEnd ==
    /\ pc = "dispatch"
    /\ \E pk \in {Peek} :
        /\ pk.item = None
        /\ SetIter(pk)
        /\ StartBuilder
        /\ UNCHANGED <<input, src, historyVars, tokens, lexVars>>

DispatchChars ==
    {Quote, Minus, LowerT, LowerF, LowerN, LBrace, RBrace, LBracket, RBracket,
     Comma, Colon, NUL} \cup (Digit0..Digit9)

\* token.rs:149-155
TokOther ==
    /\ pc = "dispatch"
    /\ \E pk \in {Peek} :
        /\ pk.item # None
        /\ pk.item[1] \notin DispatchChars
        /\ IF IsAsciiWhitespace(pk.item[1])
           THEN SetIter(PeekableNext(src, pk)) /\ pc' = "dispatch"
           ELSE SetIter(pk) /\ pc' = "abort"
        /\ UNCHANGED <<input, src, historyVars, tokens, lexVars, buildVars>>

(***************************************************************************)
(* token.rs: parse_string (pc = "string"), one action per iteration of the *)
(* for loop; the iteration that ends the loop also pushes the String and   *)
(* the closing Quotes token (token.rs:64-70).                              *)
(***************************************************************************)
RECURSIVE TrailingNuls(_)
TrailingNuls(cs) ==
    IF cs = <<>> \/ cs[Len(cs)] # NUL THEN 0
    ELSE 1 + TrailingNuls(SubSeq(cs, 1, Len(cs) - 1))

\* whether parse_string's loop ends on this item of the iterator
StringEnds(item) == item = None \/ item = Some(Quote)

ParseStringStep ==
    /\ pc = "string"
    /\ LET n == PeekableNext(src, Iter)
       IN  /\ n.item = Some(NUL) => TrailingNuls(string_characters) < MaxNulRun
           /\ SetIter(n)
           /\ IF StringEnds(n.item)
              THEN /\ tokens' = tokens \o <<TString(string_characters),
                                            Tok("Quotes")>>
                   /\ string_characters' = <<>>
                   /\ pc' = "dispatch"
              ELSE /\ string_characters' = Append(string_characters, n.item[1])
                   /\ UNCHANGED <<tokens, pc>>
    /\ UNCHANGED <<input, src, historyVars, number_characters, is_decimal,
                   epsilon_characters, is_epsilon_characters, buildVars>>

(***************************************************************************)
(* token.rs: parse_number (pc = "number"), one action per match arm of its *)
(* loop.  The arm that ends the loop also builds the Number and returns to *)
(* tokenize_json, which pushes the token (token.rs:73-74).                 *)
(***************************************************************************)
NumberReturns ==
    LET r == FinishNumber(number_characters, is_decimal, epsilon_characters,
                          is_epsilon_characters)
    IN  /\ IF r.kind = "Ok"
           THEN tokens' = Append(tokens, TNumber(r.number)) /\ pc' = "dispatch"
           ELSE IF r.kind = "Err"
           THEN tokens' = tokens /\ pc' = "err"
           ELSE tokens' = tokens /\ pc' = "abort"
        /\ number_characters' = <<>>
        /\ is_decimal' = FALSE
        /\ epsilon_characters' = <<>>
        /\ is_epsilon_characters' = FALSE

NumUnchanged ==
    UNCHANGED <<input, src, historyVars, string_characters, buildVars>>

\* token.rs:197-209
NumMinus ==
    /\ pc = "number"
    /\ \E pk \in {Peek} :
        /\ pk.item = Some(Minus)
        /\ IF is_epsilon_characters
           THEN /\ epsilon_characters' = Append(epsilon_characters, Minus)
                /\ UNCHANGED number_characters
           ELSE /\ number_characters' = Append(number_characters, Minus)
                /\ UNCHANGED epsilon_characters
        /\ SetIter(PeekableNext(src, pk))
        /\ UNCHANGED <<tokens, pc, is_decimal, is_epsilon_characters>>
        /\ NumUnchanged

\* token.rs:212-215
NumPlus ==
    /\ pc = "number"
    /\ \E pk \in {Peek} :
        /\ pk.item = Some(Plus)
        /\ SetIter(PeekableNext(src, pk))
        /\ UNCHANGED <<tokens, pc, lexVars>>
        /\ NumUnchanged

\* token.rs:217-229
NumDigit ==
    /\ pc = "number"
    /\ \E pk \in {Peek} :
        /\ pk.item # None
        /\ IsDigit(pk.item[1])
        /\ IF is_epsilon_characters
           THEN /\ epsilon_characters' = Append(epsilon_characters, pk.item[1])
                /\ UNCHANGED number_characters
           ELSE /\ number_characters' = Append(number_characters, pk.item[1])
                /\ UNCHANGED epsilon_characters
        /\ SetIter(PeekableNext(src, pk))
        /\ UNCHANGED <<tokens, pc, is_decimal, is_epsilon_characters>>
        /\ NumUnchanged

\* token.rs:230-239
NumDot ==
    /\ pc = "number"
    /\ \E pk \in {Peek} :
        /\ pk.item = Some(Dot)
        /\ number_characters' = Append(number_characters, Dot)
        /\ is_decimal' = TRUE
        /\ SetIter(PeekableNext(src, pk))
        /\ UNCHANGED <<tokens, pc, epsilon_characters, is_epsilon_characters>>
        /\ NumUnchanged

\* a break that would consume the character that ends the number
NumBreakConsumes ==
    /\ pc = "number"
    /\ \E pk \in {Peek} :
        /\ pk.item # None
        /\ pk.item[1] \in {RBrace, Comma, RBracket, Colon}
        /\ SetIter(PeekableNext(src, pk))
        /\ NumberReturns
        /\ NumUnchanged

\* token.rs:243-245: break, the character left for the main loop
NumBreak ==
    /\ pc = "number"
    /\ \E pk \in {Peek} :
        /\ pk.item # None
        /\ pk.item[1] \in {RBrace, Comma, RBracket, Colon}
        /\ SetIter(pk)
        /\ NumberReturns
        /\ NumUnchanged

\* token.rs:248-260
NumEpsilon ==
    /\ pc = "number"
    /\ \E pk \in {Peek} :
        /\ pk.item # None
        /\ pk.item[1] \in {LowerE, UpperE}
        /\ IF is_epsilon_characters
           THEN /\ SetIter(pk)
                /\ pc' = "abort"
                /\ UNCHANGED is_epsilon_characters
           ELSE /\ SetIter(PeekableNext(src, pk))
                /\ is_epsilon_characters' = TRUE
                /\ UNCHANGED pc
        /\ UNCHANGED <<tokens, number_characters, is_decimal,
                       epsilon_characters>>
        /\ NumUnchanged

NumberChars ==
    {Minus, Plus, Dot, RBrace, Comma, RBracket, Colon, LowerE, UpperE}
        \cup (Digit0..Digit9)

\* an arm in which whitespace would end the number
NumOtherEndsAtSpace ==
    /\ pc = "number"
    /\ \E pk \in {Peek} :
        /\ pk.item # None
        /\ pk.item[1] \notin NumberChars
        /\ IF IsAsciiWhitespace(pk.item[1])
           THEN SetIter(PeekableNext(src, pk)) /\ NumberReturns
           ELSE SetIter(pk) /\ pc' = "abort" /\ UNCHANGED <<tokens, lexVars>>
        /\ NumUnchanged

\* token.rs:262-268
NumOther ==
    /\ pc = "number"
    /\ \E pk \in {Peek} :
        /\ pk.item # None
        /\ pk.item[1] \notin NumberChars
        /\ IF IsAsciiWhitespace(pk.item[1])
           THEN SetIter(PeekableNext(src, pk)) /\ UNCHANGED pc
           ELSE SetIter(pk) /\ pc' = "abort"
        /\ UNCHANGED <<tokens, lexVars>>
        /\ NumUnchanged

\* token.rs:195: peek() gave None, the loop ends
NumIteratorEnd ==
    /\ pc = "number"
    /\ \E pk \in {Peek} :
        /\ pk.item = None
        /\ SetIter(pk)
        /\ NumberReturns
        /\ NumUnchanged

Tokenize ==
    \/ TokQuote \/ TokNumber \/ TokTrue \/ TokFalse \/ TokNull
    \/ TokDelimiter \/ TokNul \/ TokOther \/ TokIteratorEnd
    \/ ParseStringStep
    \/ NumMinus \/ NumPlus \/ NumDigit \/ NumDot \/ NumBreak \/ NumEpsilon
    \/ NumOther \/ NumIteratorEnd


(***************************************************************************)
(* parser.rs: the value builder (pc = "build").  The shared iterator is    *)
(* `cursor`, the number of tokens consumed.  A frame is one running call   *)
(* of process_array (internal_value) or process_object (is_key,            *)
(* current_key, value); `open` is the index of the token whose arm made    *)
(* the call.  The last frame of `stack` is the running call; with an empty *)
(* stack the loop of tokens_to_value runs.                                 *)
(***************************************************************************)
\* a call that would start in value mode
NewFrameInValueMode(kind, open) ==
    [kind |-> kind, open |-> open, internal_value |-> <<>>,
     is_key |-> FALSE, current_key |-> None, value |-> EmptyMap]

NewFrame(kind, open) ==
    [kind |-> kind, open |-> open, internal_value |-> <<>>,
     is_key |-> TRUE, current_key |-> None, value |-> EmptyMap]

Top == stack[Len(stack)]
Callers == SubSeq(stack, 1, Len(stack) - 1)
ReplaceTop(frame) == Callers \o <<frame>>

Token == tokens[cursor + 1]

IsLiteral(tok) == tok.k \in {"String", "Number", "Boolean", "Null"}

\* the Value a literal token stands for (parser.rs:44-54, 78-84, 139-170)
LiteralValue(tok) ==
    CASE tok.k = "String" -> VString(tok.s)
      [] tok.k = "Number" -> VNumber(tok.n)
      [] tok.k = "Boolean" -> VBoolean(tok.b)
      [] tok.k = "Null" -> VNull

OpenKind(tok) == IF tok.k = "CurlyOpen" THEN "object" ELSE "array"

\* a return that would give Null for a structure without content
FrameResultNullWhenEmpty(frame) ==
    IF frame.kind = "array"
    THEN IF frame.internal_value = <<>> THEN VNull
         ELSE VArray(frame.internal_value)
    ELSE IF DOMAIN frame.value = {} THEN VNull
         ELSE VObject(frame.value)

\* what a finished call returns (parser.rs:96, 178), wrapped by its caller
FrameResult(frame) ==
    IF frame.kind = "array" THEN VArray(frame.internal_value)
    ELSE VObject(frame.value)

\* the caller's frame once the call it made has returned `val`:
\* process_array pushes it (parser.rs:76, 81); process_object inserts it
\* under the held key, and clears the key only after an array
\* (parser.rs:116-119, 153-155)
Attach(caller, callee, val) ==
    IF caller.kind = "array"
    THEN [caller EXCEPT !.internal_value = Append(@, val)]
    ELSE IF callee.kind = "array"
    THEN [caller EXCEPT !.value = Insert(@, caller.current_key[1], val),
                        !.current_key = None]
    ELSE [caller EXCEPT !.value = Insert(@, caller.current_key[1], val)]

\* the running call returns to its caller
Return ==
    IF Callers = <<>>
    THEN /\ value' = FrameResult(Top)
         /\ stack' = <<>>
    ELSE /\ stack' = SubSeq(Callers, 1, Len(Callers) - 1)
                        \o <<Attach(Callers[Len(Callers)], Top, FrameResult(Top))>>
         /\ UNCHANGED value

BuildUnchanged ==
    UNCHANGED <<input, readerVars, historyVars, peeked, tokens, lexVars>>

Building(kind) ==
    /\ pc = "build"
    /\ cursor < Len(tokens)
    /\ IF kind = "top" THEN stack = <<>>
       ELSE stack # <<>> /\ Top.kind = kind

\* ---- tokens_to_value (parser.rs:39-63)
TopOpen ==
    /\ Building("top")
    /\ Token.k \in {"CurlyOpen", "ArrayOpen"}
    /\ stack' = <<NewFrame(OpenKind(Token), cursor + 1)>>
    /\ cursor' = cursor + 1
    /\ UNCHANGED <<pc, value, result>>
    /\ BuildUnchanged

\* an arm that would keep a candidate once there is one
TopLiteralKeepsFirst ==
    /\ Building("top")
    /\ IsLiteral(Token)
    /\ value' = IF value = VNull THEN LiteralValue(Token) ELSE value
    /\ cursor' = cursor + 1
    /\ UNCHANGED <<pc, stack, result>>
    /\ BuildUnchanged

\* parser.rs:44-54
TopLiteral ==
    /\ Building("top")
    /\ IsLiteral(Token)
    /\ value' = LiteralValue(Token)
    /\ cursor' = cursor + 1
    /\ UNCHANGED <<pc, stack, result>>
    /\ BuildUnchanged

TopIgnore ==
    /\ Building("top")
    /\ Token.k \in {"Comma", "CurlyClose", "Quotes", "Colon", "ArrayClose"}
    /\ cursor' = cursor + 1
    /\ UNCHANGED <<pc, value, stack, result>>
    /\ BuildUnchanged

\* parser.rs:65, 18: the tokens are used up; Ok(value) is returned
TopFinish ==
    /\ pc = "build"
    /\ cursor = Len(tokens)
    /\ stack = <<>>
    /\ result' = value
    /\ pc' = "done"
    /\ UNCHANGED <<cursor, value, stack>>
    /\ BuildUnchanged

\* ---- process_array (parser.rs:73-94)
ArrOpen ==
    /\ Building("array")
    /\ Token.k \in {"CurlyOpen", "ArrayOpen"}
    /\ stack' = Append(stack, NewFrame(OpenKind(Token), cursor + 1))
    /\ cursor' = cursor + 1
    /\ UNCHANGED <<pc, value, result>>
    /\ BuildUnchanged

\* an arm that would put the element in front
ArrLiteralInFront ==
    /\ Building("array")
    /\ IsLiteral(Token)
    /\ stack' = ReplaceTop([Top EXCEPT
                    !.internal_value = <<LiteralValue(Token)>> \o @])
    /\ cursor' = cursor + 1
    /\ UNCHANGED <<pc, value, result>>
    /\ BuildUnchanged

\* parser.rs:78-84
ArrLiteral ==
    /\ Building("array")
    /\ IsLiteral(Token)
    /\ stack' = ReplaceTop([Top EXCEPT
                    !.internal_value = Append(@, LiteralValue(Token))])
    /\ cursor' = cursor + 1
    /\ UNCHANGED <<pc, value, result>>
    /\ BuildUnchanged

\* an arm that would read past the close delimiter
ArrCloseIgnored ==
    /\ Building("array")
    /\ Token.k = "ArrayClose"
    /\ cursor' = cursor + 1
    /\ UNCHANGED <<pc, value, stack, result>>
    /\ BuildUnchanged

\* parser.rs:88-90
ArrClose ==
    /\ Building("array")
    /\ Token.k = "ArrayClose"
    /\ Return
    /\ cursor' = cursor + 1
    /\ UNCHANGED <<pc, result>>
    /\ BuildUnchanged

\* an arm in which a } would end the array as a ] does
ArrIgnoreEndsAtCurly ==
    /\ Building("array")
    /\ Token.k \in {"Comma", "CurlyClose", "Quotes", "Colon"}
    /\ IF Token.k = "CurlyClose" THEN Return ELSE UNCHANGED <<value, stack>>
    /\ cursor' = cursor + 1
    /\ UNCHANGED <<pc, result>>
    /\ BuildUnchanged

\* parser.rs:92
ArrIgnore ==
    /\ Building("array")
    /\ Token.k \in {"Comma", "CurlyClose", "Quotes", "Colon"}
    /\ cursor' = cursor + 1
    /\ UNCHANGED <<pc, value, stack, result>>
    /\ BuildUnchanged

\* an arm that would make the call whether or not a key is held
ObjOpenWithoutKey ==
    /\ Building("object")
    /\ Token.k \in {"CurlyOpen", "ArrayOpen"}
    /\ stack' = Append(stack, NewFrame(OpenKind(Token), cursor + 1))
    /\ cursor' = cursor + 1
    /\ UNCHANGED <<pc, value, result>>
    /\ BuildUnchanged

\* ---- process_object (parser.rs:110-176)
\* parser.rs:114-121, 151-157: the call is made only while a key is held
ObjOpen ==
    /\ Building("object")
    /\ Token.k \in {"CurlyOpen", "ArrayOpen"}
    /\ IF Top.current_key # None
       THEN stack' = Append(stack, NewFrame(OpenKind(Token), cursor + 1))
       ELSE UNCHANGED stack
    /\ cursor' = cursor + 1
    /\ UNCHANGED <<pc, value, result>>
    /\ BuildUnchanged

\* parser.rs:124
ObjClose ==
    /\ Building("object")
    /\ Token.k = "CurlyClose"
    /\ Return
    /\ cursor' = cursor + 1
    /\ UNCHANGED <<pc, result>>
    /\ BuildUnchanged

\* parser.rs:125
ObjIgnore ==
    /\ Building("object")
    /\ Token.k \in {"Quotes", "ArrayClose"}
    /\ cursor' = cursor + 1
    /\ UNCHANGED <<pc, value, stack, result>>
    /\ BuildUnchanged

\* parser.rs:128-130, 160
ObjSeparator ==
    /\ Building("object")
    /\ Token.k \in {"Colon", "Comma"}
    /\ stack' = ReplaceTop([Top EXCEPT !.is_key = (Token.k = "Comma")])
    /\ cursor' = cursor + 1
    /\ UNCHANGED <<pc, value, result>>
    /\ BuildUnchanged

\* the insertion of a literal under the held key, which is then cleared
InsertHeld(frame, val) ==
    IF frame.current_key # None
    THEN [frame EXCEPT !.value = Insert(@, frame.current_key[1], val),
                       !.current_key = None]
    ELSE frame

\* parser.rs:131-143
ObjString ==
    /\ Building("object")
    /\ Token.k = "String"
    /\ stack' = ReplaceTop(
                  IF Top.is_key
                  THEN [Top EXCEPT !.current_key = Some(Token.s)]
                  ELSE InsertHeld(Top, LiteralValue(Token)))
    /\ cursor' = cursor + 1
    /\ UNCHANGED <<pc, value, result>>
    /\ BuildUnchanged

\* parser.rs:144-150, 161-174
ObjLiteral ==
    /\ Building("object")
    /\ Token.k \in {"Number", "Boolean", "Null"}
    /\ stack' = ReplaceTop(InsertHeld(Top, LiteralValue(Token)))
    /\ cursor' = cursor + 1
    /\ UNCHANGED <<pc, value, result>>
    /\ BuildUnchanged

\* a call that would abort when the tokens run out inside it
ExhaustedAborts ==
    /\ pc = "build"
    /\ cursor = Len(tokens)
    /\ stack # <<>>
    /\ pc' = "abort"
    /\ UNCHANGED <<cursor, value, stack, result>>
    /\ BuildUnchanged

\* parser.rs:73, 110: iterator.next() gave None inside a call, which
\* returns what it has built
ExhaustedReturn ==
    /\ pc = "build"
    /\ cursor = Len(tokens)
    /\ stack # <<>>
    /\ Return
    /\ UNCHANGED <<pc, cursor, result>>
    /\ BuildUnchanged

Build ==
    \/ TopOpen \/ TopLiteral \/ TopIgnore \/ TopFinish
    \/ ArrOpen \/ ArrLiteral \/ ArrClose \/ ArrIgnore
    \/ ObjOpen \/ ObjClose \/ ObjIgnore \/ ObjSeparator \/ ObjString
    \/ ObjLiteral \/ ExhaustedReturn


(***************************************************************************)
(* Inputs.  A JSON document is a tree: a literal (lit, a Value), an array  *)
(* (elems, a sequence of trees) or an object (pairs, a sequence of         *)
(* <<key, tree>> in the order written; a key may occur twice).  Serialize  *)
(* writes the tree as JSON text.                                           *)
(***************************************************************************)
DLiteral(val) == [d |-> "Literal", lit |-> val, elems |-> <<>>, pairs |-> <<>>]
DArray(elems) == [d |-> "Array", lit |-> VNull, elems |-> elems, pairs |-> <<>>]
DObject(pairs) ==
    [d |-> "Object", lit |-> VNull, elems |-> <<>>, pairs |-> pairs]

DocKeys == {<<LowerA>>, <<98>>}

DocLiterals == {VNumber(I64(1)), VString(<<120>>)}

\* Gen("tree", n, 0): the trees of exactly n nodes.  Gen("elems", n, k) and
\* Gen("pairs", n, k): the sequences of trees, and of <<key, tree>>, of n
\* nodes in all whose first tree has at most k nodes
RECURSIVE Gen(_, _, _)
Gen(what, n, k) ==
    CASE what = "tree" ->
            IF n = 1
            THEN {DLiteral(val) : val \in DocLiterals}
                    \cup {DArray(<<>>), DObject(<<>>)}
            ELSE {DArray(s) : s \in Gen("elems", n - 1, n - 1)}
                    \cup {DObject(s) : s \in Gen("pairs", n - 1, n - 1)}
      [] what = "elems" ->
            IF n = 0 THEN {<<>>}
            ELSE IF k = 0 THEN {}
            ELSE Gen("elems", n, k - 1)
                    \cup {<<x>> \o rest :
                            x \in Gen("tree", k, 0),
                            rest \in Gen("elems", n - k, n - k)}
      [] what = "pairs" ->
            IF n = 0 THEN {<<>>}
            ELSE IF k = 0 THEN {}
            ELSE Gen("pairs", n, k - 1)
                    \cup {<< <<key, x>> >> \o rest :
                            key \in DocKeys, x \in Gen("tree", k, 0),
                            rest \in Gen("pairs", n - k, n - k)}

\* the trees of at most n nodes
RECURSIVE Trees(_)
Trees(n) == IF n = 0 THEN {} ELSE Trees(n - 1) \cup Gen("tree", n, 0)

\* {"a":[1,{"b":2}]}
NestedExample ==
    DObject(<< <<<<LowerA>>,
                 DArray(<<DLiteral(VNumber(I64(1))),
                          DObject(<< <<<<98>>, DLiteral(VNumber(I64(2)))>> >>)>>)>> >>)

\* [[[]],{"b":[true,null,-25]}]
DeepExample ==
    DArray(<<DArray(<<DArray(<<>>)>>),
             DObject(<< <<<<98>>, DArray(<<DLiteral(VBoolean(TRUE)),
                                           DLiteral(VNull),
                                           DLiteral(VNumber(I64(-25)))>>)>> >>)>>)

JsonDocs == Trees(MaxNodes) \cup {NestedExample, DeepExample}

RECURSIVE FormatDigits(_)
FormatDigits(n) ==
    IF n < 10 THEN <<Digit0 + n>>
    ELSE FormatDigits(n \div 10) \o <<Digit0 + (n % 10)>>

FormatI64(n) ==
    IF n < 0 THEN <<Minus>> \o FormatDigits(0 - n) ELSE FormatDigits(n)

SerializeLiteral(val) ==
    CASE val.t = "Null" -> <<LowerN, LowerU, LowerL, LowerL>>
      [] val.t = "Boolean" ->
            IF val.b THEN <<LowerT, LowerR, LowerU, LowerE>>
            ELSE <<LowerF, LowerA, LowerL, LowerS, LowerE>>
      [] val.t = "Number" -> FormatI64(val.n.m)
      [] val.t = "String" -> <<Quote>> \o val.s \o <<Quote>>

RECURSIVE Serialize(_)
Serialize(tree) ==
    CASE tree.d = "Literal" -> SerializeLiteral(tree.lit)
      [] tree.d = "Array" ->
            <<LBracket>>
                \o Flatten([i \in 1..Len(tree.elems) |->
                        (IF i > 1 THEN <<Comma>> ELSE <<>>)
                            \o Serialize(tree.elems[i])])
                \o <<RBracket>>
      [] tree.d = "Object" ->
            <<LBrace>>
                \o Flatten([i \in 1..Len(tree.pairs) |->
                        (IF i > 1 THEN <<Comma>> ELSE <<>>)
                            \o <<Quote>> \o tree.pairs[i][1] \o <<Quote, Colon>>
                            \o Serialize(tree.pairs[i][2])])
                \o <<RBrace>>

\* the index of the last pair of `pairs` whose key is `key`
LastPair(pairs, key) ==
    CHOOSE i \in 1..Len(pairs) :
        /\ pairs[i][1] = key
        /\ \A j \in (i + 1)..Len(pairs) : pairs[j][1] # key

PairKeys(pairs) == {pairs[i][1] : i \in 1..Len(pairs)}

\* the Value a JSON document denotes: arrays keep their order, an object
\* binds each key to the value of its last pair
RECURSIVE Expected(_)
Expected(tree) ==
    CASE tree.d = "Literal" -> tree.lit
      [] tree.d = "Array" ->
            VArray([i \in 1..Len(tree.elems) |-> Expected(tree.elems[i])])
      [] tree.d = "Object" ->
            VObject([key \in PairKeys(tree.pairs) |->
                        Expected(tree.pairs[LastPair(tree.pairs, key)][2])])

\* documents given as text: malformed ones, and the ones that exercise
\* whitespace, numbers, keywords and multi-byte characters
Texts ==
    {
    \* 123
    <<49, 50, 51>>,
    \* -5
    <<45, 53>>,
    \* 7
    <<55>>,
    \* 1 2
    <<49, 32, 50>>,
    \* 1,2,
    <<49, 44, 50, 44>>,
    \* true false
    <<116, 114, 117, 101, 32, 102, 97, 108, 115, 101>>,
    \* x
    <<120>>,
    \* (the empty document)
    <<>>,
    \* "abc
    <<34, 97, 98, 99>>,
    \* "a"
    <<34, 97, 34>>,
    \* "a\"b"
    <<34, 97, 92, 34, 98, 34>>,
    \* "a€"
    <<34, 97, 8364, 34>>,
    \* ["é😀",1]
    <<91, 34, 233, 128512, 34, 44, 49, 93>>,
    \* ab"€
    <<97, 98, 34, 8364>>,
    \*  [ 1 , 2 ] 
    <<32, 91, 32, 49, 32, 44, 32, 50, 32, 93, 32>>,
    \* { "a" : 1 }\n
    <<123, 32, 34, 97, 34, 32, 58, 32, 49, 32, 125, 10>>,
    \* \t[\r\n]
    <<9, 91, 13, 10, 93>>,
    \* [-1.5e-2,1e+2,123.45,1E2]
    <<91, 45, 49, 46, 53, 101, 45, 50, 44, 49, 101, 43, 50, 44, 49, 50, 51, 46,
      52, 53, 44, 49, 69, 50, 93>>,
    \* [1e2e3]
    <<91, 49, 101, 50, 101, 51, 93>>,
    \* [-]
    <<91, 45, 93>>,
    \* [1.2.3]
    <<91, 49, 46, 50, 46, 51, 93>>,
    \* [1e]
    <<91, 49, 101, 93>>,
    \* [1 2]
    <<91, 49, 32, 50, 93>>,
    \* [1x]
    <<91, 49, 120, 93>>,
    \* [1-2]
    <<91, 49, 45, 50, 93>>,
    \* [.5,1.,-0]
    <<91, 46, 53, 44, 49, 46, 44, 45, 48, 93>>,
    \* {"a":1,"a":2}
    <<123, 34, 97, 34, 58, 49, 44, 34, 97, 34, 58, 50, 125>>,
    \* [1,"x",true]
    <<91, 49, 44, 34, 120, 34, 44, 116, 114, 117, 101, 93>>,
    \* {"a":[1,{"b":2}]}
    <<123, 34, 97, 34, 58, 91, 49, 44, 123, 34, 98, 34, 58, 50, 125, 93, 125>>,
    \* {}
    <<123, 125>>,
    \* []
    <<91, 93>>,
    \* [null,false]
    <<91, 110, 117, 108, 108, 44, 102, 97, 108, 115, 101, 93>>,
    \* {"a":{"b":1} 2}
    <<123, 34, 97, 34, 58, 123, 34, 98, 34, 58, 49, 125, 32, 50, 125>>,
    \* {[1]}
    <<123, 91, 49, 93, 125>>,
    \* [1}2]
    <<91, 49, 125, 50, 93>>,
    \* [1] NUL [2]
    <<91, 49, 93, 0, 91, 50, 93>>,
    \* {:"x"}
    <<123, 58, 34, 120, 34, 125>>,
    \* {{"a":1}}
    <<123, 123, 34, 97, 34, 58, 49, 125, 125>>,
    \* {"a" "b"}
    <<123, 34, 97, 34, 32, 34, 98, 34, 125>>
    }

\* the sequences of at most n elements of `alphabet`
RECURSIVE Strings(_, _)
Strings(alphabet, n) ==
    IF n = 0 THEN {<<>>}
    ELSE Strings(alphabet, n - 1)
            \cup {Append(t, c) : t \in Strings(alphabet, n - 1), c \in alphabet}

\* number texts inside [ ]: every text of at most MaxChars characters made
\* of a digit, the decimal point, the exponent markers and the sign
NumberAlphabet == {49, Dot, LowerE, UpperE, Minus}

NumberBodies == Strings(NumberAlphabet, MaxChars) \ {<<>>}

NumberTexts == {<<LBracket>> \o body \o <<RBracket>> : body \in NumberBodies}

\* the keywords, cut short or with one character replaced
Keywords ==
    {<<LowerT, LowerR, LowerU, LowerE>>,
     <<LowerF, LowerA, LowerL, LowerS, LowerE>>,
     <<LowerN, LowerU, LowerL, LowerL>>}

KeywordVariants(w) ==
    {SubSeq(w, 1, n) : n \in 1..Len(w)}
        \cup {[w EXCEPT ![i] = c] :
                i \in 2..Len(w), c \in {51, LowerE, LowerL, 32}}

KeywordTexts ==
    {prefix \o body \o suffix :
        prefix \in {<<>>, <<LBracket>>},
        body \in UNION {KeywordVariants(w) : w \in Keywords},
        suffix \in {<<>>, <<RBracket>>}}

\* sources that are not valid UTF-8, FF standing for the byte FF
ByteDocs == {
    \* [12 FF ab
    <<91, 49, 50, 255, 97, 98>>,
    \* "ab FF cdef
    <<34, 97, 98, 255, 99, 100, 101, 102>>,
    \* [1, FF
    <<91, 49, 44, 255>>,
    \* "a FF
    <<34, 97, 255>>,
    \* " FF
    <<34, 255>>,
    \* FF
    <<255>>
    }

(***************************************************************************)
(* The parse call: parse_from_bytes (parser.rs:14-19) on a source.         *)
(***************************************************************************)
\* the scenario of a run: a JSON document and its text, a text, or (family
\* "bytes") the bytes of a source that is not valid UTF-8
Input(family, doc, text) == [family |-> family, doc |-> doc, text |-> text]

\* a source longer than BufReader's buffer: "aaa", the euro sign, then 'a'
\* up to four bytes past the capacity
LongHead == <<LowerA, LowerA, LowerA, 8364>>
LongSource ==
    [head |-> AsBytes(LongHead), fill |-> LowerA, pad |-> BufCapacity - 2,
     tail |-> <<>>]

\* a source whose last character, the euro sign, starts on the last byte
\* that BufReader's buffer holds after its first fill
StraddleTail == <<8364>>
StraddleSource ==
    [head |-> AsBytes(LongHead), fill |-> LowerA, pad |-> BufCapacity - 7,
     tail |-> AsBytes(StraddleTail)]

SourceOf(inp) ==
    IF inp.family = "bytes" THEN Source(inp.text)
    ELSE IF inp.family = "long" THEN LongSource
    ELSE IF inp.family = "straddle" THEN StraddleSource
    ELSE Source(AsBytes(inp.text))

\* the state before the first step; `at` is where the run starts
InitState(inputs, toks, at) ==
    /\ input \in inputs
    /\ src = SourceOf(input)
    /\ reader = NewBufReader
    /\ character_buffer = <<>>
    /\ calls = 0
    /\ yielded = None
    /\ peeked = None
    /\ tokens \in toks
    /\ pc = at
    /\ string_characters = <<>>
    /\ number_characters = <<>>
    /\ is_decimal = FALSE
    /\ epsilon_characters = <<>>
    /\ is_epsilon_characters = FALSE
    /\ cursor = 0
    /\ value = VNull
    /\ stack = <<>>
    /\ result = VNull

Init ==
    InitState({Input("json", doc, Serialize(doc)) : doc \in JsonDocs}
                \cup {Input("text", DLiteral(VNull), text) :
                        text \in Texts \cup KeywordTexts \cup NumberTexts}
                \cup {Input("bytes", DLiteral(VNull), bytes) :
                        bytes \in ByteDocs},
              {<<>>}, "dispatch")

Next == Tokenize \/ Build

Spec == Init /\ [][Next]_vars

(***************************************************************************)
(* The reader alone: successive calls of JsonReader::next on a source made *)
(* by JsonReader::from_bytes (reader.rs:68-73).                            *)
(***************************************************************************)
\* characters of 1, 2, 3 and 4 bytes: a, e-acute, the euro sign, U+1F600
ReaderAlphabet == {LowerA, 233, 8364, 128512}

ReaderTexts == Strings(ReaderAlphabet, MaxChars)

\* the code points of the source of a reader run, and the k-th of them
CodePoints == Len(input.text) + src.pad + Len(StrChars(src.tail))
CodePoint(k) ==
    IF k <= Len(input.text) THEN input.text[k]
    ELSE IF k <= Len(input.text) + src.pad THEN src.fill
    ELSE StrChars(src.tail)[k - Len(input.text) - src.pad]

InitReader ==
    InitState({Input("reader", DLiteral(VNull), text) : text \in ReaderTexts}
                \cup {Input("long", DLiteral(VNull), LongHead),
                      Input("straddle", DLiteral(VNull), LongHead)},
              {<<>>}, "reader")

\* one call of JsonReader::next; the calls past the end of the source stop
\* after MaxNulRun of them
ReaderStep ==
    /\ pc = "reader"
    /\ calls < CodePoints + MaxNulRun
    /\ \E r \in {ReaderNext(src, [reader |-> reader,
                                  character_buffer |-> character_buffer])} :
        /\ reader' = r.reader
        /\ character_buffer' = r.character_buffer
        /\ yielded' = r.item
    /\ calls' = calls + 1
    /\ UNCHANGED <<input, src, peeked, tokens, pc, lexVars, buildVars>>

NextReader == ReaderStep

SpecReader == InitReader /\ [][NextReader]_vars

(***************************************************************************)
(* The builder alone: tokens_to_value (parser.rs:29-66) on the token       *)
(* sequences the tokenizer can hand it.  The tokenizer pushes a String     *)
(* only between two Quotes (token.rs:55-71), and a Number only when one of *)
(* } , ] : follows it (token.rs:243-245).                                  *)
(***************************************************************************)
Lexemes ==
    {<<Tok(k)>> : k \in {"CurlyOpen", "CurlyClose", "ArrayOpen", "ArrayClose",
                         "Comma", "Colon", "Null"}}
        \cup {<<TBoolean(TRUE)>>, <<TNumber(I64(1))>>,
              <<Tok("Quotes"), TString(<<LowerA>>), Tok("Quotes")>>}

\* whether the lexeme can stand in front of the tokens `rest`
Follows(lexeme, rest) ==
    lexeme[1].k = "Number" =>
        /\ rest # <<>>
        /\ rest[1].k \in {"CurlyClose", "Comma", "ArrayClose", "Colon"}

\* the token sequences of at most n tokens
RECURSIVE TokenRuns(_)
TokenRuns(n) ==
    IF n = 0 THEN {<<>>}
    ELSE TokenRuns(n - 1)
            \cup {lexeme \o rest :
                    lexeme \in {l \in Lexemes : Len(l) <= n},
                    rest \in {r \in TokenRuns(n - 1) : Len(r) < n}}

TokenInputs ==
    {toks \in TokenRuns(MaxTokens) :
        \A i \in 1..Len(toks) :
            Follows(<<toks[i]>>, SubSeq(toks, i + 1, Len(toks)))}

InitTokens ==
    InitState({Input("tokens", DLiteral(VNull), <<>>)}, TokenInputs, "build")

NextTokens == Build

SpecTokens == InitTokens /\ [][NextTokens]_vars

(***************************************************************************)
(* Properties.                                                             *)
(***************************************************************************)
Finished == pc \in {"done", "abort", "err"}

JsonDoc(kind) == input.family = "json" /\ input.doc.d = kind

TextDoc(text) == input.family = "text" /\ input.text = text

\* {"a":1,"a":2}
DuplicateKeyText ==
    <<123, 34, 97, 34, 58, 49, 44, 34, 97, 34, 58, 50, 125>>

\* [1,"x",true]
MixedArrayText == <<91, 49, 44, 34, 120, 34, 44, 116, 114, 117, 101, 93>>

\* 1 2
OneSpaceTwo == <<49, 32, 50>>

\* tru3
Tru3 == <<LowerT, LowerR, LowerU, 51>>

\* [-]
LoneMinus == <<LBracket, Minus, RBracket>>

\* C1: parsing an object text returns an Object whose keys are the keys
\* written, each once, each bound to the value of the last pair written
\* with that key; {"a":1,"a":2} gives the single entry a -> Integer(2).
C1_LastOccurrenceWins ==
    /\ JsonDoc("Object") =>
        /\ pc \notin {"abort", "err"}
        /\ pc = "done" =>
            /\ result.t = "Object"
            /\ DOMAIN result.o = PairKeys(input.doc.pairs)
            /\ \A key \in DOMAIN result.o :
                result.o[key] =
                    Expected(input.doc.pairs[LastPair(input.doc.pairs, key)][2])
    /\ (TextDoc(DuplicateKeyText) /\ Finished) =>
            /\ pc = "done"
            /\ result = VObject(Insert(EmptyMap, <<LowerA>>, VNumber(I64(2))))

\* an object text with the same key written twice with different values
\* has been parsed
C1_Witness ==
    /\ JsonDoc("Object")
    /\ pc = "done"
    /\ Len(input.doc.pairs) = 2
    /\ input.doc.pairs[1][1] = input.doc.pairs[2][1]
    /\ Expected(input.doc.pairs[1][2]) # Expected(input.doc.pairs[2][2])

\* C2: parsing an array text returns an Array with one element per
\* literal or nested structure of the array, in the order written;
\* [1,"x",true] gives [Integer(1), String("x"), Boolean(true)].
C2_ArrayKeepsSourceOrder ==
    /\ JsonDoc("Array") =>
        /\ pc \notin {"abort", "err"}
        /\ pc = "done" =>
            /\ result.t = "Array"
            /\ Len(result.a) = Len(input.doc.elems)
            /\ \A i \in 1..Len(result.a) :
                result.a[i] = Expected(input.doc.elems[i])
    /\ (TextDoc(MixedArrayText) /\ Finished) =>
            /\ pc = "done"
            /\ result = VArray(<<VNumber(I64(1)), VString(<<120>>),
                                 VBoolean(TRUE)>>)

\* an array text of three elements, a nested structure among them and the
\* first two different, has been parsed
C2_Witness ==
    /\ JsonDoc("Array")
    /\ pc = "done"
    /\ Len(input.doc.elems) = 3
    /\ input.doc.elems[1] # input.doc.elems[2]
    /\ \E i \in 1..3 : input.doc.elems[i].d # "Literal"

\* the open delimiters among the first n tokens that no close delimiter
\* among them has matched, by index
RECURSIVE OpenStack(_, _)
OpenStack(toks, n) ==
    IF n = 0 THEN <<>>
    ELSE IF toks[n].k \in {"CurlyOpen", "ArrayOpen"}
    THEN Append(OpenStack(toks, n - 1), n)
    ELSE IF toks[n].k \in {"CurlyClose", "ArrayClose"}
            /\ OpenStack(toks, n - 1) # <<>>
    THEN SubSeq(OpenStack(toks, n - 1), 1, Len(OpenStack(toks, n - 1)) - 1)
    ELSE OpenStack(toks, n - 1)

EndNumbers == {123, -5, 7}

\* C4: a document that is one number, so that the NUL sentinel follows its
\* last digit, does not abort and yields that number (123 gives
\* Integer(123), -5 gives Integer(-5)).
C4_NumberEndsAtNul ==
    \A n \in EndNumbers :
        TextDoc(FormatI64(n)) =>
            /\ pc \notin {"abort", "err"}
            /\ pc = "done" => result = VNumber(I64(n))

AtTopLevel == pc = "build" /\ stack = <<>> /\ cursor < Len(tokens)

\* the Value of the last literal among the tokens, Null without one
LastLiteral(toks) ==
    IF \A i \in 1..Len(toks) : ~IsLiteral(toks[i]) THEN VNull
    ELSE LiteralValue(toks[CHOOSE i \in 1..Len(toks) :
                                /\ IsLiteral(toks[i])
                                /\ \A j \in (i + 1)..Len(toks) :
                                        ~IsLiteral(toks[j])])

\* C6: at top level a literal token replaces the candidate by its value,
\* an open delimiter starts a call whose result replaces the candidate
\* when it returns, and quote markers, commas, colons and close delimiters
\* leave it unchanged; the builder returns only with every token consumed,
\* and what it returns is the candidate as last assigned (the value of the
\* last literal when the tokens hold no open delimiter, Null without any).
C6_LastTopLevelValueWins ==
    [][/\ (AtTopLevel /\ IsLiteral(Token)) =>
            value' = LiteralValue(Token) /\ pc' = "build"
       /\ (AtTopLevel /\ Token.k \in {"CurlyOpen", "ArrayOpen"}) =>
            /\ Len(stack') = 1
            /\ stack'[1].open = cursor + 1
            /\ value' = value
            /\ pc' = "build"
       /\ (AtTopLevel /\ Token.k \in {"Quotes", "Comma", "Colon", "CurlyClose",
                                     "ArrayClose"}) =>
            value' = value /\ stack' = <<>> /\ pc' = "build"
       /\ (pc = "build" /\ Len(stack) = 1 /\ stack' = <<>>) =>
            value' = FrameResult(stack[1])
       /\ (pc = "build" /\ stack # <<>> /\ stack' # <<>>) => value' = value
       /\ (pc = "build" /\ pc' = "done") =>
            /\ cursor = Len(tokens)
            /\ result' = value
            /\ (\A i \in 1..Len(tokens) :
                    tokens[i].k \notin {"CurlyOpen", "ArrayOpen"}) =>
                result' = LastLiteral(tokens)
      ]_vars

\* the builder has returned from tokens that start with a literal, and
\* what it returned comes from a later token
C6_Witness ==
    /\ input.family = "tokens"
    /\ pc = "done"
    /\ Len(tokens) = MaxTokens
    /\ IsLiteral(tokens[1])
    /\ result # LiteralValue(tokens[1])

\* the texts that hold a keyword cut short or with one character replaced
BadKeywordTexts ==
    {prefix \o body \o suffix :
        prefix \in {<<>>, <<LBracket>>},
        body \in UNION {KeywordVariants(w) : w \in Keywords} \ Keywords,
        suffix \in {<<>>, <<RBracket>>}}

AtKeyword ==
    /\ pc = "dispatch"
    /\ Peek.item \in {Some(LowerT), Some(LowerF), Some(LowerN)}

\* C7: on a text whose t, f or n is not followed by exactly the rest of
\* its keyword (the end of the input included), the step that dispatches
\* on that character aborts the call; no Boolean or Null token is pushed,
\* the builder never starts and no Value is returned.
C7_MalformedKeywordAborts ==
    [][(input.family = "text" /\ input.text \in BadKeywordTexts) =>
        /\ AtKeyword => pc' = "abort"
        /\ pc' \in {"dispatch", "abort"}
        /\ \A i \in 1..Len(tokens') : tokens'[i].k \notin {"Boolean", "Null"}
        /\ result' = VNull
      ]_vars

\* the call on `tru3` has aborted
C7_Witness == TextDoc(Tru3) /\ pc = "abort" /\ tokens = <<>>

\* C8: no call ends with the failure indicator Err(()): a call that has
\* ended has returned a Value or aborted.
C8_ErrIsNeverReturned == pc # "err"

\* the final part of parse_number has failed on the number text "-" and
\* the call has ended
C8_Witness == TextDoc(LoneMinus) /\ Finished

\* C9: the tokenizer stops consuming once the reader yields the NUL
\* sentinel, in every lexing state: on a source that holds no NUL byte no
\* NUL is ever taken into a string literal.
C9_StopsAtNul ==
    input.family \in {"json", "text"} =>
        \A i \in 1..Len(string_characters) : string_characters[i] # NUL

\* C10: the k-th call of the reader on a valid UTF-8 source returns the
\* k-th code point of the source.
C10_ReaderYieldsCodePoints ==
    (pc = "reader" /\ calls \in 1..CodePoints) =>
        yielded = Some(CodePoint(calls))

\* [1] NUL [2]
NulThenMore == <<91, 49, 93, 0, 91, 50, 93>>

\* every byte of the source has been read and the queue is empty
Exhausted == reader.pos = SrcLen(src) /\ character_buffer = <<>>

\* what the next call of the reader would return
NextItem ==
    ReaderNext(src, [reader |-> reader,
                     character_buffer |-> character_buffer])

IsPrefix(s, t) == Len(s) <= Len(t) /\ SubSeq(t, 1, Len(s)) = s

\* C11: once the source is exhausted the next call of the reader yields
\* NUL, not the end of the sequence, and leaves the source exhausted (so
\* every later call does the same).  The main loop of the tokenizer, when
\* the character at a dispatch position is NUL, hands the tokens pushed so
\* far to the builder; tokens are only ever appended, and none is pushed
\* once the loop has ended.
C11_NulEndsTheTokens ==
    /\ [](Exhausted =>
            /\ NextItem.item = Some(NUL)
            /\ NextItem.reader.pos = SrcLen(src))
    /\ [][/\ (pc = "dispatch" /\ Peek.item = Some(NUL)) =>
                pc' = "build" /\ tokens' = tokens
          /\ pc \in {"build", "done"} => tokens' = tokens
          /\ IsPrefix(tokens, tokens')
         ]_vars

\* [1] NUL [2] has been parsed: the tokens are those of [1] and the bytes
\* after the NUL were never read
C11_Witness ==
    /\ TextDoc(NulThenMore)
    /\ pc = "done"
    /\ Len(tokens) = 3
    /\ result = VArray(<<VNumber(I64(1))>>)
    /\ reader.pos < SrcLen(src)

\* [-1.5e-2,1e+2,123.45,1E2]
FloatsText ==
    <<91, 45, 49, 46, 53, 101, 45, 50, 44, 49, 101, 43, 50, 44, 49, 50, 51, 46,
      52, 53, 44, 49, 69, 50, 93>>

\* the number text between the brackets of a text of NumberTexts
Body(text) == SubSeq(text, 2, Len(text) - 1)

\* whether a number text holds a decimal point or an exponent marker
HasFloatMark(cs) == \E i \in 1..Len(cs) : cs[i] \in {Dot, LowerE, UpperE}

NumberTokens == SelectSeq(tokens, LAMBDA tok : tok.k = "Number")

\* C12: the Number token lexed from a number text is tagged Float exactly
\* when the text holds a decimal point or an exponent marker, and Integer
\* otherwise; -1.5e-2, 1e+2, 123.45 and 1E2 give Float(-0.015),
\* Float(100.0), Float(123.45) and Float(100.0); -11 gives Integer(-11).
C12_TagFollowsTheText ==
    /\ (input.family = "text" /\ input.text \in NumberTexts) =>
        \A i \in 1..Len(tokens) :
            tokens[i].k = "Number" =>
                (tokens[i].n.tag = "F64" <=> HasFloatMark(Body(input.text)))
    /\ (TextDoc(FloatsText) /\ pc = "done") =>
        NumberTokens = <<TNumber(F64(-15, -3)), TNumber(F64(1, 2)),
                         TNumber(F64(12345, -2)), TNumber(F64(1, 2))>>
    /\ (TextDoc(<<LBracket>> \o FormatI64(-11) \o <<RBracket>>)
            /\ pc = "done") =>
        NumberTokens = <<TNumber(I64(-11))>>

\* a number text with a decimal point and no exponent has been lexed
C12_Witness ==
    /\ input.family = "text"
    /\ input.text \in NumberTexts
    /\ pc = "done"
    /\ Len(NumberTokens) = 1
    /\ ~\E i \in 1..Len(input.text) : input.text[i] \in {LowerE, UpperE}
    /\ NumberTokens[1].n.tag = "F64"

\* {}
EmptyObjectText == <<LBrace, RBrace>>

\* []
EmptyArrayText == <<LBracket, RBracket>>

\* C13: parsing {} returns an Object with no key and parsing [] returns an
\* Array with no element; neither call aborts nor returns Null.
C13_EmptyStructures ==
    /\ TextDoc(EmptyObjectText) =>
        /\ pc \notin {"abort", "err"}
        /\ pc = "done" =>
            /\ result.t = "Object"
            /\ DOMAIN result.o = {}
            /\ result # VNull
    /\ TextDoc(EmptyArrayText) =>
        /\ pc \notin {"abort", "err"}
        /\ pc = "done" =>
            /\ result.t = "Array"
            /\ Len(result.a) = 0
            /\ result # VNull

\* {} has been parsed
C13_Witness ==
    /\ TextDoc(EmptyObjectText)
    /\ pc = "done"
    /\ tokens = <<Tok("CurlyOpen"), Tok("CurlyClose")>>

\* [] has been parsed
C13_ArrayParsed == TextDoc(EmptyArrayText) /\ pc = "done"

\* {"a":{"b":1} 2}
ObjectThenNumber ==
    <<123, 34, 97, 34, 58, 123, 34, 98, 34, 58, 49, 125, 32, 50, 125>>

\* the running object call inserts the token at the cursor under its held key
InsertsLiteral ==
    /\ Building("object")
    /\ Top.current_key # None
    /\ \/ Token.k \in {"Number", "Boolean", "Null"}
       \/ Token.k = "String" /\ ~Top.is_key

\* the running call of the given kind returns into an object call, which
\* inserts the result under its held key
InsertsBuilt(kind) ==
    /\ pc = "build"
    /\ Len(stack) >= 2
    /\ Top.kind = kind
    /\ Callers[Len(Callers)].kind = "object"
    /\ Len(stack') = Len(stack) - 1

\* C14: in the object builder every insertion made while a key is held
\* leaves no key held, whether the inserted value is a String, Number,
\* Boolean or Null token, a recursively built Array or a recursively built
\* Object; so a token after the nested object of {"a":{"b":1} 2} is not
\* stored under "a".
C14_InsertionClearsTheKey ==
    /\ [][/\ InsertsLiteral => stack'[Len(stack')].current_key = None
          /\ InsertsBuilt("array") => stack'[Len(stack')].current_key = None
          /\ InsertsBuilt("object") => stack'[Len(stack')].current_key = None]_vars
    /\ []((TextDoc(ObjectThenNumber) /\ pc = "done") =>
            result = VObject(Insert(EmptyMap, <<LowerA>>,
                         VObject(Insert(EmptyMap, <<98>>, VNumber(I64(1)))))))

\* the parts of C14 that hold: insertion of a literal or of a built Array
C14_LiteralsAndArraysClear ==
    [][/\ InsertsLiteral => stack'[Len(stack')].current_key = None
       /\ InsertsBuilt("array") => stack'[Len(stack')].current_key = None]_vars

\* the number after the nested object replaced it under "a"
C14_Overwritten ==
    /\ TextDoc(ObjectThenNumber)
    /\ pc = "done"
    /\ result = VObject(Insert(EmptyMap, <<LowerA>>, VNumber(I64(2))))

\* {:"x"}
ValueWithoutKey == <<123, 58, 34, 120, 34, 125>>

\* an object call starts with this step
ObjectCallStarts ==
    /\ Len(stack') = Len(stack) + 1
    /\ stack'[Len(stack')].kind = "object"

\* the running object call meets a token of the given kinds
ObjectMeets(kinds) == Building("object") /\ Token.k \in kinds

\* the step leaves the running object call on top of the stack
SameCall == Len(stack') = Len(stack) /\ Callers' = Callers

\* C15: an object call starts expecting a key, with no held key; a colon
\* switches it to expecting a value and a comma back to expecting a key,
\* neither touching the held key or the mapping; a String met while a key is
\* expected only becomes the held key; a String met while a value is
\* expected is inserted under the held key if there is one and is dropped
\* otherwise.
C15_ModesAndHeldKey ==
    [][/\ ObjectCallStarts =>
            /\ Top'.is_key
            /\ Top'.current_key = None
            /\ Top'.value = EmptyMap
       /\ ObjectMeets({"Colon", "Comma"}) =>
            /\ SameCall
            /\ Top'.is_key = (Token.k = "Comma")
            /\ Top'.current_key = Top.current_key
            /\ Top'.value = Top.value
       /\ (ObjectMeets({"String"}) /\ Top.is_key) =>
            /\ SameCall
            /\ Top'.is_key
            /\ Top'.current_key = Some(Token.s)
            /\ Top'.value = Top.value
       /\ (ObjectMeets({"String"}) /\ ~Top.is_key /\ Top.current_key # None) =>
            /\ SameCall
            /\ Top'.value = Insert(Top.value, Top.current_key[1], VString(Token.s))
       /\ (ObjectMeets({"String"}) /\ ~Top.is_key /\ Top.current_key = None) =>
            /\ SameCall
            /\ Top' = Top]_vars

\* the String of {:"x"} has been dropped
C15_Witness ==
    /\ TextDoc(ValueWithoutKey)
    /\ pc = "done"
    /\ Len(tokens) = 6
    /\ result = VObject(EmptyMap)

\* [1 2]
SpacedArrayText == <<LBracket, 49, 32, 50, RBracket>>

NumberEnders == {RBrace, Comma, RBracket, Colon}

\* what is in front of the iterator where the lexing of a number returns:
\* one of } , ] : or, if `atEnd` allows it, the end of the iterator
EndsNumber(item, atEnd) ==
    IF item = None THEN atEnd ELSE item[1] \in NumberEnders

\* [1 2] gives one Number token, and a Number is the last token only
\* where EndsNumber allows
NumberTokenEnds(atEnd) ==
    /\ (TextDoc(SpacedArrayText) /\ pc \in {"build", "done"}) =>
            tokens = <<Tok("ArrayOpen"), TNumber(I64(12)), Tok("ArrayClose")>>
    /\ (pc = "dispatch" /\ tokens # <<>> /\ tokens[Len(tokens)].k = "Number") =>
            EndsNumber(Peek.item, atEnd)

\* whitespace is skipped inside a number, and the lexing of a number
\* returns only where EndsNumber allows, with the iterator left as it was
NumberLexingStep(atEnd) ==
    /\ (pc = "number" /\ Peek.item # None /\ IsAsciiWhitespace(Peek.item[1])) =>
            /\ pc' = "number"
            /\ tokens' = tokens
            /\ number_characters' = number_characters
            /\ epsilon_characters' = epsilon_characters
    /\ (pc = "number" /\ pc' = "dispatch") =>
            /\ EndsNumber(Peek.item, atEnd)
            /\ Peek'.item = Peek.item
            /\ Len(tokens') = Len(tokens) + 1
            /\ tokens'[Len(tokens')].k = "Number"

\* C16 as claimed: whitespace met while a number is lexed is skipped and
\* does not end the number, so [1 2] gives one Number token made of both
\* digits; the lexing of a number ends only at one of } , ] : which stays in
\* front of the iterator for the main loop.
C16_EndsOnlyAtDelimiters ==
    []NumberTokenEnds(FALSE) /\ [][NumberLexingStep(FALSE)]_vars

\* C16, amended: whitespace met while a number is lexed is skipped and does
\* not end the number, so [1 2] gives one Number token made of both digits;
\* the lexing of a number ends at one of } , ] : which stays in front of the
\* iterator for the main loop, or where the iterator has no further
\* character (the reader met bytes that are not UTF-8), and nowhere else.
C16_WhitespaceInsideNumber ==
    []NumberTokenEnds(TRUE) /\ [][NumberLexingStep(TRUE)]_vars

\* the Number of the bytes [ 1 2 FF a b was returned at the iterator's end
C16_EndedWithoutDelimiter ==
    /\ input.family = "bytes"
    /\ pc = "dispatch"
    /\ tokens = <<Tok("ArrayOpen"), TNumber(I64(12))>>
    /\ Peek.item = None

\* [1 2] has been lexed into three tokens and built
C16_Witness ==
    /\ TextDoc(SpacedArrayText)
    /\ pc = "done"
    /\ Len(tokens) = 3
    /\ result = VArray(<<VNumber(I64(12))>>)

\* "abc
UnclosedText == <<Quote, LowerA, 98, 99>>

\* "a\"b"
BackslashText == <<Quote, LowerA, 92, Quote, 98, Quote>>

NoQuote(cs) == \A i \in 1..Len(cs) : cs[i] # Quote

\* cs are characters of the text that come right after a `"` of it
FollowsQuote(text, cs) ==
    \E j \in 1..Len(text) :
        /\ text[j] = Quote
        /\ j + Len(cs) <= Len(text)
        /\ SubSeq(text, j + 1, j + Len(cs)) = cs

\* cs are the characters of the text between a `"` and the next `"`
BetweenQuotes(text, cs) ==
    /\ NoQuote(cs)
    /\ FollowsQuote(text, cs \o <<Quote>>)

\* the i-th token is a String between two Quotes tokens whose text stands
\* between two `"` of the input
StringInQuotes(i) ==
    /\ 1 < i
    /\ i < Len(tokens)
    /\ tokens[i - 1].k = "Quotes"
    /\ tokens[i + 1].k = "Quotes"
    /\ BetweenQuotes(input.text, tokens[i].s)

\* C17: every `"` met at dispatch gives the three tokens Quotes,
\* String(text), Quotes in a row, where text is the characters of the input
\* from after that `"` up to the next `"`, a backslash being a character
\* like any other; every String token stands between two Quotes tokens.
C17_QuoteGivesThreeTokens ==
    input.family \in {"json", "text"} =>
        /\ \A i \in 1..Len(tokens) :
                tokens[i].k = "String" => StringInQuotes(i)
        /\ pc = "string" =>
                /\ tokens[Len(tokens)].k = "Quotes"
                /\ NoQuote(string_characters)
                /\ FollowsQuote(input.text, string_characters)

\* the part of C17 that holds: every String token stands between two Quotes
\* tokens and its text stands between two `"` of the input
C17_StringsStandBetweenQuotes ==
    input.family \in {"json", "text"} =>
        \A i \in 1..Len(tokens) : tokens[i].k = "String" => StringInQuotes(i)

\* the string of "abc has taken in a NUL that the input does not hold
C17_NulInsideString ==
    /\ TextDoc(UnclosedText)
    /\ pc = "string"
    /\ tokens = <<Tok("Quotes")>>
    /\ string_characters = <<LowerA, 98, 99, NUL>>

\* the backslash of "a\"b" is the last character of the String token
C17_BackslashKept ==
    /\ TextDoc(BackslashText)
    /\ Len(tokens) >= 3
    /\ tokens[2] = TString(<<LowerA, 92>>)

\* [ [ null, with neither array closed
UnclosedArrays == <<Tok("ArrayOpen"), Tok("ArrayOpen"), Tok("Null")>>

\* what is left to do: the tokens not yet consumed, the calls not yet
\* returned, and the return of tokens_to_value itself
Remaining ==
    2 * (Len(tokens) - cursor) + Len(stack) + (IF pc = "build" THEN 1 ELSE 0)

\* C18: the builder passes over the tokens once, forward, with one cursor
\* for tokens_to_value and every nested call: each step of the running call
\* consumes the one token at the cursor or, with no token left, returns what
\* the call has built; no call aborts; the builder ends with every token
\* consumed, after a number of steps bounded by the number of tokens.
C18_SingleForwardPass ==
    /\ [](input.family = "tokens" =>
            /\ pc \in {"build", "done"}
            /\ cursor \in 0..Len(tokens)
            /\ Len(stack) <= cursor
            /\ \A d \in 1..Len(stack) :
                    /\ stack[d].open <= cursor
                    /\ d > 1 => stack[d - 1].open < stack[d].open
            /\ pc = "done" => cursor = Len(tokens) /\ stack = <<>>)
    /\ [][pc = "build" =>
            /\ tokens' = tokens
            /\ cursor' \in {cursor, cursor + 1}
            /\ cursor' = cursor => cursor = Len(tokens)
            /\ (cursor = Len(tokens) /\ stack # <<>>) =>
                    /\ pc' = "build"
                    /\ Len(stack') = Len(stack) - 1
            /\ Remaining' < Remaining]_vars

\* the tokens ran out inside two unclosed arrays, which returned what they
\* had built
C18_Witness ==
    /\ input.family = "tokens"
    /\ tokens = UnclosedArrays
    /\ pc = "done"
    /\ cursor = 3
    /\ result = VArray(<<VArray(<<VNull>>)>>)

\* [ } null ]
StrayCurlyInArray ==
    <<Tok("ArrayOpen"), Tok("CurlyClose"), Tok("Null"), Tok("ArrayClose")>>

\* the running array call ends with this step
ArrayCallEnds ==
    /\ pc = "build"
    /\ stack # <<>>
    /\ Top.kind = "array"
    /\ Len(stack') < Len(stack)

\* C19: an array call ends only at a ] token or when the tokens run out; a
\* comma, colon, quote marker or } met by it adds no element and does not
\* end it, so the elements after a stray } go into the same array.
C19_ArrayEndsOnlyAtItsClose ==
    /\ []((input.family = "tokens" /\ tokens = StrayCurlyInArray
            /\ pc = "done") => result = VArray(<<VNull>>))
    /\ [][/\ ArrayCallEnds =>
                IF cursor = Len(tokens) THEN cursor' = cursor
                ELSE Token.k = "ArrayClose"
          /\ (Building("array")
                /\ Token.k \in {"Comma", "Colon", "Quotes", "CurlyClose"}) =>
                /\ stack' = stack
                /\ cursor' = cursor + 1
                /\ pc' = "build"]_vars

\* the Null after the stray } went into the array that was open before it
C19_Witness ==
    /\ input.family = "tokens"
    /\ tokens = StrayCurlyInArray
    /\ pc = "done"
    /\ result = VArray(<<VNull>>)

\* {{"a":1}}
ObjectInObjectText == <<123, 123, 34, 97, 34, 58, 49, 125, 125>>

\* {[1]}
ArrayInObjectText == <<123, 91, 49, 93, 125>>

\* Object{"a": Integer(1)}
ObjectA1 == VObject(Insert(EmptyMap, <<LowerA>>, VNumber(I64(1))))

\* C20: an object call that meets { or [ while it holds no key makes no
\* call and inserts nothing; the tokens of the nested structure are then
\* met by the same object call: in {{"a":1}} the pair lands in the outer
\* mapping and the inner } ends the outer object, in {[1]} the ] is ignored
\* and the } ends the object.
C20_OpenWithoutKey ==
    /\ [](/\ TextDoc(ObjectInObjectText) =>
                /\ Len(stack) <= 1
                /\ (pc = "build" /\ cursor = 8) =>
                        stack = <<>> /\ value = ObjectA1
                /\ pc = "done" => result = ObjectA1
          /\ TextDoc(ArrayInObjectText) =>
                /\ Len(stack) <= 1
                /\ (pc = "build" /\ cursor = 4) =>
                        /\ Len(stack) = 1
                        /\ Top.kind = "object"
                        /\ Top.value = EmptyMap
                /\ pc = "done" => result = VObject(EmptyMap))
    /\ [][(ObjectMeets({"CurlyOpen", "ArrayOpen"})
            /\ Top.current_key = None) =>
                /\ stack' = stack
                /\ cursor' = cursor + 1
                /\ pc' = "build"]_vars

\* {{"a":1}} has been parsed: the pair is in the outer mapping
C20_Witness ==
    /\ TextDoc(ObjectInObjectText)
    /\ pc = "done"
    /\ Len(tokens) = 9
    /\ result = ObjectA1

\* {[1]} has been parsed
C20_ArrayInObjectParsed == TextDoc(ArrayInObjectText) /\ pc = "done"

\* the next call of the reader finds its queue empty and reads the source
ReadsNow == pc = "reader" /\ character_buffer = <<>>

\* that read (where it starts, how many bytes it returns) and utf8_buffer
\* after it
TheRead == BufRead(src, reader)
ReadBuffer == Utf8Buffer(src, TheRead.at, TheRead.n)

\* the prefix of utf8_buffer that is valid UTF-8 is shorter than the buffer
PartialDecode == ValidUpTo(ReadBuffer) < 4

RECURSIVE NulCount(_)
NulCount(cs) ==
    IF cs = <<>> THEN 0
    ELSE (IF Head(cs) = NUL THEN 1 ELSE 0) + NulCount(Tail(cs))

\* the rewind after a partial decode leaves the reader at the first byte
\* read but not decoded
RewindsToUndecoded ==
    PartialDecode =>
        /\ reader'.pos = TheRead.at + ValidUpTo(ReadBuffer)
        /\ reader'.pos >= TheRead.at

\* C21: after a partial decode the reader's backward seek leaves the source
\* position at the first byte that was read but not decoded (the start of
\* the read plus the length of the decoded prefix), whether the read
\* returned 1, 2, 3 or 4 bytes, and never before the start of the read; a
\* read that returns fewer than 4 bytes before the end of the source does
\* not make the reader yield a NUL that the source does not hold.
C21_RewindsToFirstUndecodedByte ==
    [][(ReadsNow /\ TheRead.n \in 1..4) =>
            /\ RewindsToUndecoded
            /\ (TheRead.n < 4 /\ TheRead.at + TheRead.n < SrcLen(src)) =>
                    NulCount(yielded' \o character_buffer')
                        <= NulCount(SubSeq(ReadBuffer, 1, TheRead.n))]_vars

\* the part of C21 that holds: after a read that returned 4 bytes
C21_FullReadRewinds ==
    [][(ReadsNow /\ TheRead.n = 4) => RewindsToUndecoded]_vars

\* the read of the one byte E2 at the end of BufReader's buffer was followed
\* by a rewind of four bytes, and the reader returned None
C21_RewoundPastTheRead ==
    /\ input.family = "straddle"
    /\ calls = BufCapacity - 2
    /\ yielded = None
    /\ reader.pos = BufCapacity - 4

\* a full read that ended inside a character has been rewound
C21_FullReadRewound ==
    /\ input.family = "reader"
    /\ input.text = <<8364, 8364>>
    /\ calls = 1
    /\ reader.pos = 3

\* the byte FF, which can neither start nor continue a UTF-8 sequence
InvalidByte == 255

\* [12 FF ab, "ab FF cdef, [1, FF: the read that meets FF returns 4 bytes or
\* starts at least 4 bytes into the source
NumberThenInvalid == <<91, 49, 50, InvalidByte, 97, 98>>
StringThenInvalid == <<34, 97, 98, InvalidByte, 99, 100, 101, 102>>
CommaThenInvalid == <<91, 49, 44, InvalidByte>>

\* "a FF, " FF, FF: the read that meets FF returns fewer than 4 bytes
ShortStringThenInvalid == <<34, 97, InvalidByte>>
QuoteThenInvalid == <<34, InvalidByte>>
OnlyInvalid == <<InvalidByte>>

\* where the first invalid byte stands in the source
FirstInvalid(bytes) ==
    CHOOSE i \in 1..Len(bytes) :
        /\ bytes[i] = InvalidByte
        /\ \A j \in 1..(i - 1) : bytes[j] # InvalidByte

\* the value of the source cut before its first invalid byte
TruncatedValue(bytes) ==
    IF bytes = NumberThenInvalid THEN VArray(<<VNumber(I64(12))>>)
    ELSE IF bytes = StringThenInvalid THEN VString(<<LowerA, 98>>)
    ELSE IF bytes = CommaThenInvalid THEN VArray(<<VNumber(I64(1))>>)
    ELSE IF bytes = ShortStringThenInvalid THEN VString(<<LowerA>>)
    ELSE IF bytes = QuoteThenInvalid THEN VString(<<>>)
    ELSE VNull

\* the reader has not gone past the invalid byte and has yielded no NUL,
\* the call has not aborted or failed, and what it returns is the value of
\* the source cut before the invalid byte
EndsAtInvalidByte ==
    /\ pc \notin {"abort", "err"}
    /\ reader.pos < FirstInvalid(input.text)
    /\ NulCount(character_buffer) = 0
    /\ NulCount(string_characters) = 0
    /\ peeked # Some(Some(NUL))
    /\ pc = "done" => result = TruncatedValue(input.text)

\* C22: on a source that holds a byte which can neither start nor continue
\* a UTF-8 sequence the reader yields the code points before it and then
\* None: it does not go past the byte, does not abort and yields no NUL;
\* the tokenizer returns the tokens lexed so far and the call returns the
\* value built from the source cut at that byte, neither aborting nor
\* failing.
C22_InvalidByteEndsTheInput ==
    input.family = "bytes" => EndsAtInvalidByte

\* the part of C22 that holds: the sources in which the read that meets the
\* invalid byte can be rewound by 4 bytes less the decoded prefix
C22_FullReadsEndTheInput ==
    (input.family = "bytes"
        /\ input.text \in {NumberThenInvalid, StringThenInvalid,
                           CommaThenInvalid}) => EndsAtInvalidByte

\* "ab FF cdef has returned String(ab)
C22_StringCutAtInvalid ==
    /\ input.family = "bytes"
    /\ input.text = StringThenInvalid
    /\ pc = "done"
    /\ result = VString(<<LowerA, 98>>)

\* "a FF: the reader yielded the a a second time, where the call panics
C22_AbortsAfterShortRead ==
    /\ input.family = "bytes"
    /\ input.text = ShortStringThenInvalid
    /\ pc = "abort"
    /\ tokens = <<Tok("Quotes"), TString(<<LowerA, LowerA>>), Tok("Quotes")>>

=============================================================================
